---- MODULE Spec2Model ----
(***************************************************************************)
(* Model of application.py: the Application's Run handler, the Engine it   *)
(* builds and Engine.sort_patients, with the four rule evaluators.         *)
(*                                                                         *)
(* Conventions.                                                            *)
(*  - A Python str is a sequence of one-character strings, so that         *)
(*    iteration over a str, lower(), strip() and the "in" substring test   *)
(*    are computed as Python computes them.                                *)
(*  - A Python float is an exact rational [n, d] in lowest terms.          *)
(*  - A value that may be None is a sequence of length at most one.        *)
(*  - A dict is a record; "key in dict" is a DOMAIN test.                  *)
(***************************************************************************)
EXTENDS Integers, Sequences, FiniteSets, TLC

(***************************************************************************)
(* Bounds of the explored inputs.                                          *)
(***************************************************************************)
MaxPatients == 2

\* the number of criteria, inclusion and exclusion together, of a rule document
MaxRules == 3

BoundedSeq(S, n) == UNION {[1..k -> S] : k \in 0..n}

(***************************************************************************)
(* float arithmetic, as exact rationals.                                   *)
(***************************************************************************)
RECURSIVE GCD(_, _)
GCD(a, b) == IF b = 0 THEN a ELSE GCD(b, a % b)

Rat(n, d) == LET g == GCD(n, d) IN [n |-> n \div g, d |-> d \div g]

Zero == [n |-> 0, d |-> 1]

One == [n |-> 1, d |-> 1]

RatAdd(a, b) == Rat(a.n * b.d + b.n * a.d, a.d * b.d)

RatMul(a, b) == Rat(a.n * b.n, a.d * b.d)

RatGT(a, b) == a.n * b.d > b.n * a.d

(***************************************************************************)
(* str operations.                                                         *)
(***************************************************************************)
LowerChar(c) == IF c = "A" THEN "a" ELSE IF c = "B" THEN "b" ELSE IF c = "C" THEN "c" ELSE c

Lower(s) == [i \in 1..Len(s) |-> LowerChar(s[i])]

Strip(s) ==
  LET ns == {i \in 1..Len(s) : s[i] # " "}
  IN IF ns = {} THEN <<>>
     ELSE SubSeq(s, CHOOSE i \in ns : \A j \in ns : i <= j,
                    CHOOSE i \in ns : \A j \in ns : i >= j)

\* Python's "a in b" on two str values
IsSubstring(a, b) ==
  \E i \in 0..(Len(b) - Len(a)) : SubSeq(b, i + 1, i + Len(a)) = a

\* ast.literal_eval on the text of a list of single-quoted string literals
RECURSIVE LiteralEvalFrom(_, _, _, _, _)
LiteralEvalFrom(s, i, inq, cur, acc) ==
  IF i > Len(s) THEN acc
  ELSE IF s[i] = "'"
       THEN IF inq THEN LiteralEvalFrom(s, i + 1, FALSE, <<>>, Append(acc, cur))
                   ELSE LiteralEvalFrom(s, i + 1, TRUE, <<>>, acc)
       ELSE IF inq THEN LiteralEvalFrom(s, i + 1, TRUE, Append(cur, s[i]), acc)
                   ELSE LiteralEvalFrom(s, i + 1, FALSE, cur, acc)

LiteralEval(s) == LiteralEvalFrom(s, 1, FALSE, <<>>, <<>>)

Range(f) == {f[i] : i \in DOMAIN f}

(***************************************************************************)
(* The patient source: rows as pandas.read_csv returns them.  The list     *)
(* columns are str cells holding the text of a list.                       *)
(***************************************************************************)
\* "[]"
CellEmpty == <<"[", "]">>

\* "['ab', 'ab c']"
CellAbAbc == <<"[", "'", "a", "b", "'", ",", " ", "'", "a", "b", " ", "c", "'", "]">>

\* "['C AB']"
CellCAB == <<"[", "'", "C", " ", "A", "B", "'", "]">>

\* "['b']"
CellB == <<"[", "'", "b", "'", "]">>

\* "['41', '27']"
Cell4127 == <<"[", "'", "4", "1", "'", ",", " ", "'", "2", "7", "'", "]">>

RowA == [subject_id |-> 10, first_name |-> "Ann", last_name |-> "Ames",
         age |-> 60, gender |-> "F",
         prescriptions |-> CellAbAbc, prescriptions_poe |-> CellCAB,
         prescriptions_generic |-> CellEmpty, icd9_codes |-> Cell4127]

RowB == [subject_id |-> 11, first_name |-> "Bob", last_name |-> "Berg",
         age |-> 40, gender |-> "M",
         prescriptions |-> CellB, prescriptions_poe |-> CellEmpty,
         prescriptions_generic |-> CellEmpty, icd9_codes |-> CellEmpty]

PatientRows == {RowA, RowB}

\* the patient CSV files the user can select: header plus 0..MaxPatients rows
CsvFiles == BoundedSeq(PatientRows, MaxPatients)

(***************************************************************************)
(* The translator's responses (RuleBuilder.build_rule).                    *)
(***************************************************************************)
InclusionEntries ==
  { [rule |-> [type |-> "age", min |-> 50], weight |-> Rat(1, 2)],
    [rule |-> [type |-> "gender", gender |-> 1], weight |-> Rat(1, 2)],
    [rule |-> [type |-> "medications", medications |-> << <<" ", "A", "B">>, <<"b">> >>],
     weight |-> One],
    [rule |-> [type |-> "other", note |-> "bmi"], weight |-> One] }

ExclusionEntries ==
  { [rule |-> [type |-> "age", min |-> 50]],
    [rule |-> [type |-> "gender", gender |-> 0]],
    [rule |-> [type |-> "medications", medications |-> << <<"b">> >>]],
    [rule |-> [type |-> "preexisting_conditions",
               icd9_codes |-> << <<"2", "7">>, <<" ", "9", "9">> >>]],
    [rule |-> [type |-> "other", note |-> "bmi"]] }

RuleDocuments ==
  UNION { { [response |-> "rules", inclusion_criterium |-> inc, exclusion_criterium |-> exc] :
              inc \in [1..n -> InclusionEntries],
              exc \in BoundedSeq(ExclusionEntries, MaxRules - n) } :
          n \in 0..MaxRules }

\* responses that lack one or both of the top-level keys
MalformedResponses ==
  { [response |-> "error", message |-> "Invalid clinical trial definition."],
    [response |-> "rules",
     inclusion_criterium |-> << [rule |-> [type |-> "gender", gender |-> 1], weight |-> One] >>],
    [response |-> "rules",
     exclusion_criterium |-> << [rule |-> [type |-> "gender", gender |-> 0]] >>] }

TranslatorResponses == RuleDocuments \cup MalformedResponses

(***************************************************************************)
(* Rule evaluators.                                                        *)
(***************************************************************************)
\* rule.get("min"), rule.get("max"): None when the key is absent
RuleGet(rule, key) == IF key \in DOMAIN rule THEN <<rule[key]>> ELSE <<>>

age(patient_data, min, max) ==
  IF min # <<>> /\ patient_data.age < min[1] THEN Zero
  ELSE IF max # <<>> /\ patient_data.age > max[1] THEN Zero
  ELSE One

gender(patient_data, g) ==
  IF g = 0 THEN (IF patient_data.gender = "M" THEN One ELSE Zero)
  ELSE IF g = 1 THEN (IF patient_data.gender = "F" THEN One ELSE Zero)
  ELSE IF g = 2 THEN One
  ELSE Zero

MedColumns == <<"prescriptions", "prescriptions_poe", "prescriptions_generic">>

\* matches: one per (med, col, patient_med) with med in patient_med.lower().strip(),
\* where patient_med ranges over the items that iterating patient_data[col] yields:
\* the cell is a str, so the items are its characters
MedMatches(patient_data, meds) ==
  Cardinality(UNION { LET med == Strip(Lower(meds[mc[1]]))
                          cell == patient_data[MedColumns[mc[2]]]
                      IN { <<mc[1], mc[2], j>> :
                             j \in { i \in 1..Len(cell) :
                                      IsSubstring(med, Strip(Lower(<<cell[i]>>))) } } :
                      mc \in (1..Len(meds)) \X (1..Len(MedColumns)) })

medications(patient_data, meds) ==
  IF Len(meds) > 0 THEN Rat(MedMatches(patient_data, meds), Len(meds)) ELSE Zero

preexisting_conditions(patient_data, study_icd9_codes) ==
  LET patient_set == Range(LiteralEval(Lower(Strip(patient_data.icd9_codes))))
      study_set == {Lower(Strip(x)) : x \in Range(study_icd9_codes)}
  IN IF Cardinality(study_set) > 0
     THEN Rat(Cardinality(patient_set \cap study_set), Cardinality(study_set))
     ELSE Zero

(***************************************************************************)
(* Engine.sort_patients: the two rule loops and the sort.                  *)
(***************************************************************************)
KnownTypes == {"age", "gender", "medications", "preexisting_conditions"}

\* the evaluator call made for a rule of a known type
Eval(patient_data, rule) ==
  IF rule.type = "age" THEN age(patient_data, RuleGet(rule, "min"), RuleGet(rule, "max"))
  ELSE IF rule.type = "gender" THEN gender(patient_data, rule.gender)
  ELSE IF rule.type = "medications" THEN medications(patient_data, rule.medications)
  ELSE preexisting_conditions(patient_data, rule.icd9_codes)

\* variant: the contribution replaces the score instead of adding to it
InclusionStepReplace(score, patient_data, entry) ==
  IF entry.rule.type \in KnownTypes
  THEN RatMul(Eval(patient_data, entry.rule), entry.weight)
  ELSE score

\* one pass of the inclusion loop body
InclusionStep(score, patient_data, entry) ==
  IF entry.rule.type \in KnownTypes
  THEN RatAdd(score, RatMul(Eval(patient_data, entry.rule), entry.weight))
  ELSE score

RECURSIVE InclusionLoop(_, _, _, _)
InclusionLoop(score, patient_data, incl, k) ==
  IF k > Len(incl) THEN score
  ELSE InclusionLoop(InclusionStep(score, patient_data, incl[k]), patient_data, incl, k + 1)

\* the evaluator calls of a loop over the entries 1..upto of a rule list
EvalCalls(patient, list, entries, upto) ==
  { [patient_index |-> patient.patient_index, list |-> list, k |-> k,
     type |-> entries[k].rule.type,
     result |-> Eval(patient.patient_data, entries[k].rule)] :
      k \in {j \in 1..upto : entries[j].rule.type \in KnownTypes} }

\* variant: every rule type is tested like age and gender
ViolatedWhenZero(type, result) == result = Zero

\* the condition under which an exclusion entry zeroes the score
Violated(type, result) ==
  IF type \in {"age", "gender"} THEN result = Zero ELSE RatGT(result, Zero)

\* the line written to the exclusion log
Reason(patient, rule) ==
  IF rule.type = "age"
  THEN [patient_index |-> patient.patient_index, due_to |-> "age",
        age |-> patient.patient_data.age,
        min |-> RuleGet(rule, "min"), max |-> RuleGet(rule, "max")]
  ELSE IF rule.type = "gender"
  THEN [patient_index |-> patient.patient_index, due_to |-> "gender",
        gender |-> patient.patient_data.gender,
        needed |-> IF rule.gender = 0 THEN "M" ELSE "F"]
  ELSE IF rule.type = "medications"
  THEN [patient_index |-> patient.patient_index, due_to |-> "medications",
        prescriptions |-> patient.patient_data.prescriptions,
        medications |-> rule.medications]
  ELSE [patient_index |-> patient.patient_index, due_to |-> "preexisting conditions",
        icd9_codes |-> patient.patient_data.icd9_codes,
        study_icd9_codes |-> rule.icd9_codes]

\* variant: the loop leaves after its first entry, violated or not
ExclusionLoopFirstOnly(patient, excl, k, acc) ==
  IF k > Len(excl) THEN acc
  ELSE LET rule == excl[k].rule
           seen == [acc EXCEPT !.last = k]
       IN IF rule.type \in KnownTypes
             /\ Violated(rule.type, Eval(patient.patient_data, rule))
          THEN [seen EXCEPT !.score = Zero, !.writes = @ + 1,
                            !.lines = Append(@, Reason(patient, rule))]
          ELSE seen

\* variant: no break after a violation
RECURSIVE ExclusionLoopNoBreak(_, _, _, _)
ExclusionLoopNoBreak(patient, excl, k, acc) ==
  IF k > Len(excl) THEN acc
  ELSE LET rule == excl[k].rule
           seen == [acc EXCEPT !.last = k]
       IN IF rule.type \in KnownTypes
             /\ Violated(rule.type, Eval(patient.patient_data, rule))
          THEN ExclusionLoopNoBreak(patient, excl, k + 1,
                 [seen EXCEPT !.score = Zero, !.writes = @ + 1,
                              !.lines = Append(@, Reason(patient, rule))])
          ELSE ExclusionLoopNoBreak(patient, excl, k + 1, seen)

\* variant: a rule of an unknown type ends the loop
RECURSIVE ExclusionLoopStopAtUnknown(_, _, _, _)
ExclusionLoopStopAtUnknown(patient, excl, k, acc) ==
  IF k > Len(excl) THEN acc
  ELSE LET rule == excl[k].rule
           seen == [acc EXCEPT !.last = k]
       IN IF rule.type \notin KnownTypes THEN seen
          ELSE IF Violated(rule.type, Eval(patient.patient_data, rule))
          THEN [seen EXCEPT !.score = Zero, !.writes = @ + 1,
                            !.lines = Append(@, Reason(patient, rule))]
          ELSE ExclusionLoopStopAtUnknown(patient, excl, k + 1, seen)

\* the exclusion loop from entry k on; acc = [score, writes, lines, last]:
\* the patient's score, the number of assignments to it, the lines written and
\* the last entry the loop looked at
RECURSIVE ExclusionLoop(_, _, _, _)
ExclusionLoop(patient, excl, k, acc) ==
  IF k > Len(excl) THEN acc
  ELSE LET rule == excl[k].rule
           seen == [acc EXCEPT !.last = k]
       IN IF rule.type \in KnownTypes
             /\ Violated(rule.type, Eval(patient.patient_data, rule))
          THEN [seen EXCEPT !.score = Zero, !.writes = @ + 1,
                            !.lines = Append(@, Reason(patient, rule))]
          ELSE ExclusionLoop(patient, excl, k + 1, seen)

\* the entry appended to patient_scores
ScoreEntry(patient) ==
  [patient_index |-> patient.patient_index,
   subject_id |-> patient.patient_data.subject_id,
   first_name |-> patient.patient_data.first_name,
   last_name |-> patient.patient_data.last_name,
   score |-> patient.score]

\* variant: no entry for a patient whose score is 0.0
AppendScoreSkipZero(scores, patient) ==
  IF patient.score = Zero THEN scores ELSE Append(scores, ScoreEntry(patient))

\* self.patient_scores.append({...})
AppendScore(scores, patient) == Append(scores, ScoreEntry(patient))

Reverse(s) == [i \in 1..Len(s) |-> s[Len(s) + 1 - i]]

\* stable insertion: x goes after every element whose key is not greater
InsertByScore(sorted, x) ==
  LET idx == Cardinality({i \in 1..Len(sorted) : ~RatGT(sorted[i].score, x.score)})
  IN SubSeq(sorted, 1, idx) \o <<x>> \o SubSeq(sorted, idx + 1, Len(sorted))

RECURSIVE StableSortAscending(_, _, _)
StableSortAscending(s, k, sorted) ==
  IF k > Len(s) THEN sorted
  ELSE StableSortAscending(s, k + 1, InsertByScore(sorted, s[k]))

\* variant: sorted ascending, then reversed (equal scores end up reversed)
SortByScoreThenReverse(ps) == Reverse(StableSortAscending(ps, 1, <<>>))

\* patients.sort(key=lambda x: x.score, reverse=True): the list is reversed,
\* sorted ascending by a stable sort, and reversed again
SortByScore(ps) == Reverse(StableSortAscending(Reverse(ps), 1, <<>>))

\* variant: every patient is shown
OutputLinesUnfiltered(ps) ==
  [i \in 1..Len(ps) |->
     [first_name |-> ps[i].patient_data.first_name,
      last_name |-> ps[i].patient_data.last_name,
      subject_id |-> ps[i].patient_data.subject_id,
      score |-> ps[i].score]]

\* the lines shown in the output text widget
OutputLines(ps) ==
  LET shown == SelectSeq(ps, LAMBDA p : RatGT(p.score, Zero))
  IN [i \in 1..Len(shown) |->
        [first_name |-> shown[i].patient_data.first_name,
         last_name |-> shown[i].patient_data.last_name,
         subject_id |-> shown[i].patient_data.subject_id,
         score |-> shown[i].score]]

PercentageIncluded(ps) ==
  LET num_patients == Len(ps)
      num_included_patients == Cardinality({i \in 1..Len(ps) : RatGT(ps[i].score, Zero)})
  IN IF num_patients > 0
     THEN RatMul(Rat(num_included_patients, num_patients), Rat(100, 1))
     ELSE Zero

(***************************************************************************)
(* State.                                                                  *)
(***************************************************************************)
VARIABLES
  patient_csv_fp,      \* Application.patient_csv_fp: <<>> or <<file>>
  log_folder,          \* Application.log_folder, handed to the Engine
  pc,                  \* position of the Run handler
  rules,               \* Engine.rules
  patients,            \* the list of Patient objects of sort_patients
  cur,                 \* position of the "for patient in patients" loop
  patient_scores,      \* Engine.patient_scores
  exclusion_log_file,  \* Engine.exclusion_log_file: <<>> or <<[closed, lines]>>
  scores_csv,          \* logs/patient_scores.csv: <<>> or <<rows>>
  parsed_rules_json,   \* logs/parsed_rules.json: <<>> or <<document>>
  output_text,         \* the output text widget
  popup,               \* the message box or popup the last Run has shown, if any
  percentage_included, \* the percentage shown in the success popup
  score_writes,        \* per patient_index, the number of assignments to Patient.score
  evals,               \* the evaluator calls made so far in this run
  sort_calls           \* the number of sort_patients calls made on the Engine in use

vars == <<patient_csv_fp, log_folder, pc, rules, patients, cur, patient_scores,
          exclusion_log_file, scores_csv, parsed_rules_json, output_text, popup,
          percentage_included, score_writes, evals, sort_calls>>

NoPopup == [title |-> "", message |-> ""]

Init ==
  /\ patient_csv_fp = <<>>
  /\ log_folder = <<"logs">>
  /\ pc = "idle"
  /\ rules = [response |-> "none"]
  /\ patients = <<>>
  /\ cur = 1
  /\ patient_scores = <<>>
  /\ exclusion_log_file = <<>>
  /\ scores_csv = <<>>
  /\ parsed_rules_json = <<>>
  /\ output_text = <<>>
  /\ popup = NoPopup
  /\ percentage_included = Zero
  /\ score_writes = <<>>
  /\ evals = {}
  /\ sort_calls = 0

(***************************************************************************)
(* Application.select_csv_file: the dialog returns a file, or nothing when *)
(* it is cancelled.                                                        *)
(***************************************************************************)
SelectCsvFileFrom(files) ==
  /\ pc = "idle"
  /\ \E choice \in {<<>>} \cup {<<f>> : f \in files} : patient_csv_fp' = choice
  /\ UNCHANGED <<log_folder, pc, rules, patients, cur, patient_scores, exclusion_log_file,
                 scores_csv, parsed_rules_json, output_text, popup, percentage_included,
                 score_writes, evals, sort_calls>>

SelectCsvFile == SelectCsvFileFrom(CsvFiles)

(***************************************************************************)
(* Application.run_application, its two early returns.                     *)
(***************************************************************************)
RunRejected ==
  /\ pc = "idle"
  /\ \E rule_description \in {"", "trial"} :
       /\ rule_description = "" \/ patient_csv_fp = <<>>
       /\ popup' = [title |-> "Error",
                    message |-> IF rule_description = ""
                                THEN "Please enter a rule description."
                                ELSE "Please select a patient CSV file."]
  /\ UNCHANGED <<patient_csv_fp, log_folder, pc, rules, patients, cur, patient_scores,
                 exclusion_log_file, scores_csv, parsed_rules_json, output_text,
                 percentage_included, score_writes, evals, sort_calls>>

(***************************************************************************)
(* Application.run_application up to the patient loop: the translator      *)
(* answers, the document is saved, the Engine is constructed (the          *)
(* exclusion log is opened when a log folder is given) and sort_patients   *)
(* loads the patients.                                                     *)
(***************************************************************************)
LoadPatients(file) ==
  [i \in 1..Len(file) |-> [patient_index |-> i - 1, patient_data |-> file[i], score |-> Zero]]

\* variant: the handler keeps the Engine of the run before instead of
\* constructing one
EngineKept(folder) ==
  [exclusion_log_file |-> exclusion_log_file,
   patient_scores |-> patient_scores,
   sort_calls |-> sort_calls]

\* Engine.__init__: the fields of a new Engine
EngineInit(folder) ==
  [exclusion_log_file |-> IF folder # <<>>
                          THEN << [closed |-> FALSE, lines |-> <<>>] >>
                          ELSE <<>>,
   patient_scores |-> <<>>,
   sort_calls |-> 0]

RunStartWith(responses) ==
  /\ pc = "idle"
  /\ patient_csv_fp # <<>>
  /\ \E response \in responses :
       /\ rules' = response
       /\ parsed_rules_json' = <<response>>
  /\ LET engine == EngineInit(log_folder)
     IN /\ exclusion_log_file' = engine.exclusion_log_file
        /\ patient_scores' = engine.patient_scores
        /\ sort_calls' = engine.sort_calls + 1
  /\ patients' = LoadPatients(patient_csv_fp[1])
  /\ score_writes' = [i \in 0..(Len(patient_csv_fp[1]) - 1) |-> 0]
  /\ evals' = {}
  /\ cur' = 1
  /\ pc' = IF Len(patient_csv_fp[1]) > 0 THEN "inclusion" ELSE "sort"
  /\ popup' = NoPopup
  /\ UNCHANGED <<patient_csv_fp, log_folder, scores_csv, output_text, percentage_included>>

RunStart == RunStartWith(TranslatorResponses)

(***************************************************************************)
(* The inclusion loop of the current patient and "patient.score = score".  *)
(* A document without the key raises KeyError, caught by run_application.  *)
(***************************************************************************)
ApplyInclusion ==
  /\ pc = "inclusion"
  /\ IF "inclusion_criterium" \notin DOMAIN rules
     THEN /\ pc' = "error"
          /\ popup' = [title |-> "Error", message |-> "'inclusion_criterium'"]
          /\ UNCHANGED <<patients, score_writes, evals>>
     ELSE LET patient == patients[cur]
              incl == rules.inclusion_criterium
          IN /\ patients' = [patients EXCEPT ![cur].score =
                               InclusionLoop(Zero, patient.patient_data, incl, 1)]
             /\ score_writes' = [score_writes EXCEPT ![patient.patient_index] = @ + 1]
             /\ evals' = evals \cup EvalCalls(patient, "inclusion_criterium", incl, Len(incl))
             /\ pc' = "exclusion"
             /\ UNCHANGED popup
  /\ UNCHANGED <<patient_csv_fp, log_folder, rules, cur, patient_scores, exclusion_log_file,
                 scores_csv, parsed_rules_json, output_text, percentage_included, sort_calls>>

(***************************************************************************)
(* The exclusion loop of the current patient and the append to             *)
(* patient_scores; then the next patient, or the sort.                     *)
(***************************************************************************)
\* str(e) of the ValueError that a write to a closed file object raises
ClosedFileMessage == "I/O operation on closed file."

\* a line is written to a handle that close() was called on
WriteOnClosed(file, lines) ==
  file # <<>> /\ file[1].closed /\ lines # <<>>

ApplyExclusion ==
  /\ pc = "exclusion"
  /\ IF "exclusion_criterium" \notin DOMAIN rules
     THEN /\ pc' = "error"
          /\ popup' = [title |-> "Error", message |-> "'exclusion_criterium'"]
          /\ UNCHANGED <<patients, score_writes, evals, exclusion_log_file,
                         patient_scores, cur>>
     ELSE LET patient == patients[cur]
              excl == rules.exclusion_criterium
              out == ExclusionLoop(patient, excl, 1,
                                   [score |-> patient.score, writes |-> 0,
                                    lines |-> <<>>, last |-> 0])
              scored == [patient EXCEPT !.score = out.score]
          IN /\ patients' = [patients EXCEPT ![cur] = scored]
             /\ score_writes' = [score_writes EXCEPT ![patient.patient_index] = @ + out.writes]
             /\ evals' = evals \cup EvalCalls(patient, "exclusion_criterium", excl, out.last)
             /\ IF WriteOnClosed(exclusion_log_file, out.lines)
                THEN \* file.write on a closed handle raises ValueError
                     /\ pc' = "error"
                     /\ popup' = [title |-> "Error", message |-> ClosedFileMessage]
                     /\ UNCHANGED <<exclusion_log_file, patient_scores, cur>>
                ELSE /\ exclusion_log_file' =
                          IF exclusion_log_file # <<>>
                          THEN << [exclusion_log_file[1] EXCEPT !.lines = @ \o out.lines] >>
                          ELSE exclusion_log_file
                     /\ patient_scores' = AppendScore(patient_scores, scored)
                     /\ cur' = cur + 1
                     /\ pc' = IF cur < Len(patients) THEN "inclusion" ELSE "sort"
                     /\ UNCHANGED popup
  /\ UNCHANGED <<patient_csv_fp, log_folder, rules, scores_csv, parsed_rules_json,
                 output_text, percentage_included, sort_calls>>

(***************************************************************************)
(* The end of sort_patients: the sort, the score log written to            *)
(* patient_scores.csv and the exclusion log closed (both when a log folder *)
(* is given), and the return.                                              *)
(***************************************************************************)
FinishSortPatients ==
  /\ pc = "sort"
  /\ patients' = SortByScore(patients)
  /\ scores_csv' = IF log_folder # <<>> THEN <<patient_scores>> ELSE scores_csv
  /\ exclusion_log_file' = IF exclusion_log_file # <<>>
                           THEN << [exclusion_log_file[1] EXCEPT !.closed = TRUE] >>
                           ELSE exclusion_log_file
  /\ pc' = "display"
  /\ UNCHANGED <<patient_csv_fp, log_folder, rules, cur, patient_scores, parsed_rules_json,
                 output_text, popup, percentage_included, score_writes, evals, sort_calls>>

(***************************************************************************)
(* run_application after sort_patients returned: the display list and the  *)
(* success popup.                                                          *)
(***************************************************************************)
Display ==
  /\ pc = "display"
  /\ output_text' = OutputLines(patients)
  /\ percentage_included' = PercentageIncluded(patients)
  /\ popup' = [title |-> "Success", message |-> "Processed patients. Percentage included"]
  /\ pc' = "done"
  /\ UNCHANGED <<patient_csv_fp, log_folder, rules, patients, cur, patient_scores,
                 exclusion_log_file, scores_csv, parsed_rules_json, score_writes, evals,
                 sort_calls>>

Next ==
  \/ SelectCsvFile
  \/ RunRejected
  \/ RunStart
  \/ ApplyInclusion
  \/ ApplyExclusion
  \/ FinishSortPatients
  \/ Display

Spec == Init /\ [][Next]_vars

\* the document has both top-level keys
HasKeys == {"inclusion_criterium", "exclusion_criterium"} \subseteq DOMAIN rules

TypeOK ==
  /\ pc \in {"idle", "inclusion", "exclusion", "sort", "display", "done", "error"}
  /\ Len(patients) <= MaxPatients
  /\ HasKeys => Len(rules.inclusion_criterium) + Len(rules.exclusion_criterium) <= MaxRules
  /\ cur \in 1..(MaxPatients + 1)

(***************************************************************************)
(* Notions shared by the properties.                                       *)
(***************************************************************************)
\* the patient loop is over
Scored == pc \in {"sort", "display", "done"}

\* sort_patients has returned
Ranked == pc \in {"display", "done"}

ViolatesEntry(patient_data, entry) ==
  /\ entry.rule.type \in KnownTypes
  /\ Violated(entry.rule.type, Eval(patient_data, entry.rule))

ViolatingEntries(patient_data, excl) ==
  {k \in 1..Len(excl) : ViolatesEntry(patient_data, excl[k])}

FirstViolating(patient_data, excl) ==
  LET violating == ViolatingEntries(patient_data, excl)
  IN CHOOSE k \in violating : \A j \in violating : k <= j

Contribution(patient_data, entry) ==
  IF entry.rule.type \in KnownTypes
  THEN RatMul(Eval(patient_data, entry.rule), entry.weight)
  ELSE Zero

RECURSIVE WeightedSum(_, _, _)
WeightedSum(patient_data, incl, upto) ==
  IF upto = 0 THEN Zero
  ELSE RatAdd(WeightedSum(patient_data, incl, upto - 1),
              Contribution(patient_data, incl[upto]))

LinesOf(patient_index) ==
  {j \in 1..Len(exclusion_log_file[1].lines) :
     exclusion_log_file[1].lines[j].patient_index = patient_index}

\* the patient object with the given patient_index
PatientAt(patient_index) ==
  patients[CHOOSE i \in 1..Len(patients) : patients[i].patient_index = patient_index]

(***************************************************************************)
(* C1: after sort_patients has sorted, every patient that violates at     *)
(* least one exclusion entry has score 0.0, whatever its weighted          *)
(* inclusion sum and wherever the violated entry stands in the list.       *)
(***************************************************************************)
ExclusionZeroesScore ==
  (Ranked /\ HasKeys) =>
    \A i \in 1..Len(patients) :
      ViolatingEntries(patients[i].patient_data, rules.exclusion_criterium) # {}
        => patients[i].score = Zero

\* a patient with a positive inclusion sum that passes the first exclusion
\* entry and violates the second one ends at 0.0
ExclusionZeroesScoreWitness ==
  /\ Ranked /\ HasKeys
  /\ \E i \in 1..Len(patients) :
       /\ ViolatingEntries(patients[i].patient_data, rules.exclusion_criterium) = {2}
       /\ rules.exclusion_criterium[1].rule.type \in KnownTypes
       /\ RatGT(WeightedSum(patients[i].patient_data, rules.inclusion_criterium,
                            Len(rules.inclusion_criterium)), Zero)
       /\ patients[i].score = Zero

(***************************************************************************)
(* C2: once sort_patients has returned, the exclusion log holds exactly one *)
(* line for each patient that violates an exclusion entry and none for any *)
(* other patient; the line is the one of the first violated entry, and no  *)
(* exclusion entry after that one was evaluated for the patient.           *)
(***************************************************************************)
ExclusionLogFirstMatchOnly ==
  (Ranked /\ HasKeys) =>
    /\ exclusion_log_file # <<>>
    /\ \A i \in 1..Len(patients) :
         LET p == patients[i]
             excl == rules.exclusion_criterium
             violating == ViolatingEntries(p.patient_data, excl)
             first == CHOOSE k \in violating : \A j \in violating : k <= j
             mine == LinesOf(p.patient_index)
         IN IF violating # {}
            THEN /\ Cardinality(mine) = 1
                 /\ \A j \in mine :
                      exclusion_log_file[1].lines[j] = Reason(p, excl[first].rule)
                 /\ \A e \in evals :
                      (e.patient_index = p.patient_index /\ e.list = "exclusion_criterium")
                        => e.k <= first
            ELSE mine = {}
    /\ \A j \in 1..Len(exclusion_log_file[1].lines) :
         \E i \in 1..Len(patients) :
           patients[i].patient_index = exclusion_log_file[1].lines[j].patient_index

\* one patient violates both exclusion entries and has one line; another has
\* score 0.0 without violating anything and has no line
ExclusionLogFirstMatchOnlyWitness ==
  /\ Ranked /\ HasKeys
  /\ \E i \in 1..Len(patients) :
       /\ ViolatingEntries(patients[i].patient_data, rules.exclusion_criterium) = {1, 2}
       /\ rules.exclusion_criterium[1] # rules.exclusion_criterium[2]
       /\ Cardinality(LinesOf(patients[i].patient_index)) = 1
  /\ \E i \in 1..Len(patients) :
       /\ ViolatingEntries(patients[i].patient_data, rules.exclusion_criterium) = {}
       /\ patients[i].score = Zero
       /\ LinesOf(patients[i].patient_index) = {}

(***************************************************************************)
(* C3: the sorted list is a permutation of the loaded patients, by score   *)
(* descending, and patients with equal scores are in patient_index order.  *)
(***************************************************************************)
RankingIsStablePermutation ==
  Ranked =>
    LET file == patient_csv_fp[1]
    IN /\ Len(patients) = Len(file)
       /\ \A idx \in 0..(Len(file) - 1) :
            \E i \in 1..Len(patients) :
              /\ patients[i].patient_index = idx
              /\ patients[i].patient_data = file[idx + 1]
       /\ \A i, j \in 1..Len(patients) :
            i < j =>
              /\ ~RatGT(patients[j].score, patients[i].score)
              /\ patients[i].score = patients[j].score
                   => patients[i].patient_index < patients[j].patient_index

\* two patients with the same positive score
RankingTieWitness ==
  /\ Ranked
  /\ Len(patients) = 2
  /\ patients[1].score = patients[2].score
  /\ RatGT(patients[1].score, Zero)
  /\ patients[1].patient_index = 0

(***************************************************************************)
(* C4: the score log has one entry per row of the patient file, in file    *)
(* order whatever the ranking, each with the patient's final score; the    *)
(* CSV written is that log.                                                *)
(***************************************************************************)
ScoreLogOnePerPatient ==
  /\ Scored =>
       LET file == patient_csv_fp[1]
       IN /\ Len(patient_scores) = Len(file)
          /\ \A i \in 1..Len(patient_scores) :
               /\ patient_scores[i].patient_index = i - 1
               /\ patient_scores[i].subject_id = file[i].subject_id
               /\ patient_scores[i].first_name = file[i].first_name
               /\ patient_scores[i].last_name = file[i].last_name
               /\ patient_scores[i].score = PatientAt(i - 1).score
  /\ Ranked => scores_csv = <<patient_scores>>

\* the ranking differs from the file order, one patient is excluded, and the
\* CSV has both rows
ScoreLogWitness ==
  /\ pc = "done" /\ HasKeys
  /\ Len(patients) = 2
  /\ patients[1].patient_index = 1
  /\ ViolatingEntries(patients[2].patient_data, rules.exclusion_criterium) # {}
  /\ Len(scores_csv[1]) = 2
  /\ RatGT(scores_csv[1][2].score, Zero)

(***************************************************************************)
(* C5: a patient that violates no exclusion entry ends with the sum over   *)
(* the inclusion entries of evaluator result times weight.                 *)
(***************************************************************************)
InclusionScoreIsWeightedSum ==
  (Ranked /\ HasKeys) =>
    \A i \in 1..Len(patients) :
      ViolatingEntries(patients[i].patient_data, rules.exclusion_criterium) = {}
        => patients[i].score =
             WeightedSum(patients[i].patient_data, rules.inclusion_criterium,
                         Len(rules.inclusion_criterium))

\* two inclusion entries both contribute and the score is larger than either
InclusionScoreWitness ==
  /\ Ranked /\ HasKeys
  /\ Len(rules.inclusion_criterium) = 2
  /\ \E i \in 1..Len(patients) :
       LET c1 == Contribution(patients[i].patient_data, rules.inclusion_criterium[1])
           c2 == Contribution(patients[i].patient_data, rules.inclusion_criterium[2])
       IN /\ RatGT(c1, Zero) /\ RatGT(c2, Zero)
          /\ ViolatingEntries(patients[i].patient_data, rules.exclusion_criterium) = {}
          /\ RatGT(patients[i].score, c1) /\ RatGT(patients[i].score, c2)

(***************************************************************************)
(* C6: the medications evaluator returns, for a non-empty target list, the *)
(* number of pairs (target, list entry), over the entries of the lists the *)
(* three medication cells hold, with the lowercased trimmed target a       *)
(* substring of the lowercased trimmed entry, divided by the number of     *)
(* targets; 0.0 for an empty target list.                                  *)
(***************************************************************************)
EntryMatches(patient_data, meds) ==
  Cardinality(UNION { { <<mc[1], mc[2], j>> :
                          j \in { i \in 1..Len(LiteralEval(patient_data[MedColumns[mc[2]]])) :
                                   IsSubstring(Strip(Lower(meds[mc[1]])),
                                     Strip(Lower(LiteralEval(patient_data[MedColumns[mc[2]]])[i]))) } } :
                      mc \in (1..Len(meds)) \X (1..Len(MedColumns)) })

MedicationsCountsListEntries ==
  \A e \in evals :
    e.type = "medications" =>
      LET meds == rules[e.list][e.k].rule.medications
          patient_data == PatientAt(e.patient_index).patient_data
      IN e.result = IF Len(meds) > 0
                    THEN Rat(EntryMatches(patient_data, meds), Len(meds))
                    ELSE Zero

(***************************************************************************)
(* C7: a run whose translator response lacks inclusion_criterium or        *)
(* exclusion_criterium never completes as a successful run, whatever the   *)
(* patient file, the empty one included.                                   *)
(***************************************************************************)
MissingKeyNeverSucceeds ==
  pc = "done" => HasKeys

(***************************************************************************)
(* C8: rules of a type other than the four known ones never fail the run   *)
(* and act as if they were not in the document: every score and every      *)
(* exclusion-log line is the one the document without these entries gives, *)
(* and no evaluator is called for them.                                    *)
(***************************************************************************)
Supported(entries) == SelectSeq(entries, LAMBDA e : e.rule.type \in KnownTypes)

UnknownTypeIsIgnored ==
  /\ pc = "error" => ~HasKeys
  /\ \A e \in evals : e.type \in KnownTypes
  /\ (Ranked /\ HasKeys) =>
       LET incl == Supported(rules.inclusion_criterium)
           excl == Supported(rules.exclusion_criterium)
       IN \A i \in 1..Len(patients) :
            LET p == patients[i]
                violating == ViolatingEntries(p.patient_data, excl)
                first == CHOOSE k \in violating : \A j \in violating : k <= j
            IN IF violating # {}
               THEN /\ p.score = Zero
                    /\ \E j \in LinesOf(p.patient_index) :
                         exclusion_log_file[1].lines[j] = Reason(p, excl[first].rule)
               ELSE /\ p.score = WeightedSum(p.patient_data, incl, Len(incl))
                    /\ LinesOf(p.patient_index) = {}

\* an unknown rule stands before a violated exclusion entry, and an unknown
\* inclusion rule is the whole inclusion list of a patient that is not excluded
UnknownTypeWitness ==
  /\ pc = "done" /\ HasKeys
  /\ Len(rules.exclusion_criterium) = 2
  /\ rules.exclusion_criterium[1].rule.type = "other"
  /\ \E e \in Range(rules.inclusion_criterium) : e.rule.type = "other"
  /\ \E i \in 1..Len(patients) :
       /\ ViolatesEntry(patients[i].patient_data, rules.exclusion_criterium[2])
       /\ patients[i].score = Zero
       /\ LinesOf(patients[i].patient_index) # {}
  /\ \E i \in 1..Len(patients) :
       /\ ~ViolatesEntry(patients[i].patient_data, rules.exclusion_criterium[2])
       /\ patients[i].score = Zero
       /\ LinesOf(patients[i].patient_index) = {}

(***************************************************************************)
(* C9 as stated: a patient's score is assigned exactly once per run.       *)
(***************************************************************************)
ScoreWrittenExactlyOnce ==
  /\ \A idx \in DOMAIN score_writes : score_writes[idx] <= 1
  /\ Scored => \A idx \in DOMAIN score_writes : score_writes[idx] = 1

(***************************************************************************)
(* C9 as amended: the scoring engine assigns a patient's score once with   *)
(* the inclusion sum and a second time, with 0.0, exactly when the patient *)
(* violates an exclusion entry; once the patient loop is over no step (the *)
(* sort, the log writing, the display) assigns or changes any score.       *)
(***************************************************************************)
ScoreByIndex == [idx \in DOMAIN score_writes |-> PatientAt(idx).score]

ScoreWrittenThenFrozen ==
  /\ [](\A idx \in DOMAIN score_writes : score_writes[idx] <= 2)
  /\ []((Scored /\ HasKeys) =>
          \A idx \in DOMAIN score_writes :
            score_writes[idx] =
              IF ViolatingEntries(PatientAt(idx).patient_data, rules.exclusion_criterium) # {}
              THEN 2 ELSE 1)
  /\ [][Scored => (ScoreByIndex' = ScoreByIndex /\ score_writes' = score_writes)]_vars

\* a finished run with one patient assigned twice and one assigned once
ScoreWritesWitness ==
  /\ pc = "done"
  /\ \E a, b \in DOMAIN score_writes : score_writes[a] = 2 /\ score_writes[b] = 1
  /\ \E i \in 1..Len(patients) :
       Cardinality(ViolatingEntries(patients[i].patient_data, rules.exclusion_criterium)) = 2

(***************************************************************************)
(* C10: after a successful run the display list holds exactly the patients *)
(* with score > 0, in ranked order, none of them violates an exclusion     *)
(* entry, and the percentage is 100 * (patients with score > 0) / (number  *)
(* of patients), 0 without patients.                                       *)
(***************************************************************************)
PositivePositions == {i \in 1..Len(patients) : RatGT(patients[i].score, Zero)}

\* the k-th position, in list order, of a patient with score > 0
NthPositive(k) ==
  CHOOSE i \in PositivePositions : Cardinality({j \in PositivePositions : j <= i}) = k

DisplayIsFilteredRanking ==
  pc = "done" =>
    /\ Len(output_text) = Cardinality(PositivePositions)
    /\ \A k \in 1..Len(output_text) :
         /\ output_text[k].subject_id = patients[NthPositive(k)].patient_data.subject_id
         /\ output_text[k].first_name = patients[NthPositive(k)].patient_data.first_name
         /\ output_text[k].last_name = patients[NthPositive(k)].patient_data.last_name
         /\ output_text[k].score = patients[NthPositive(k)].score
    /\ HasKeys =>
         \A i \in PositivePositions :
           ViolatingEntries(patients[i].patient_data, rules.exclusion_criterium) = {}
    /\ IF Len(patients) > 0
       THEN percentage_included.n * Len(patients)
              = 100 * Cardinality(PositivePositions) * percentage_included.d
       ELSE percentage_included = Zero

\* the second-ranked of two patients is excluded and only the first is shown
DisplayWitness ==
  /\ pc = "done" /\ HasKeys
  /\ Len(patients) = 2
  /\ Len(output_text) = 1
  /\ ViolatingEntries(patients[2].patient_data, rules.exclusion_criterium) # {}
  /\ percentage_included = Rat(50, 1)

(***************************************************************************)
(* Runs over exclusion lists that hold every kind of exclusion rule,       *)
(* gender 2 ("either") and an unrecognized gender value included.  Every   *)
(* patient has inclusion score 1.0 before the exclusion loop.              *)
(***************************************************************************)
MaxPolarityRules == 2

PolarityExclusionEntries ==
  { [rule |-> [type |-> "age", min |-> 50]],
    [rule |-> [type |-> "gender", gender |-> 0]],
    [rule |-> [type |-> "gender", gender |-> 2]],
    [rule |-> [type |-> "gender", gender |-> 3]],
    [rule |-> [type |-> "medications", medications |-> << <<"b">> >>]],
    [rule |-> [type |-> "medications", medications |-> << <<"a", "b">> >>]],
    [rule |-> [type |-> "preexisting_conditions",
               icd9_codes |-> << <<"2", "7">>, <<" ", "9", "9">> >>]] }

PolarityResponses ==
  { [response |-> "rules",
     inclusion_criterium |-> << [rule |-> [type |-> "gender", gender |-> 2], weight |-> One] >>,
     exclusion_criterium |-> exc] :
      exc \in BoundedSeq(PolarityExclusionEntries, MaxPolarityRules) }

RunStartPolarity == RunStartWith(PolarityResponses)

NextPolarity ==
  \/ SelectCsvFile
  \/ RunRejected
  \/ RunStartPolarity
  \/ ApplyInclusion
  \/ ApplyExclusion
  \/ FinishSortPatients
  \/ Display

SpecPolarity == Init /\ [][NextPolarity]_vars

(***************************************************************************)
(* C11: an evaluated exclusion entry takes effect (the patient's score is  *)
(* set to 0.0, the entry's line is written and the loop ends there) if and *)
(* only if its evaluator returned exactly 0.0 for an age or gender entry,  *)
(* and more than 0.0 for a medications or preexisting_conditions entry.    *)
(* So a gender entry with 2 never takes effect and one with a value other  *)
(* than 0, 1 and 2 takes effect for every patient it is evaluated for.     *)
(***************************************************************************)
\* the exclusion entry of evaluator call e ended the loop of its patient
TookEffect(e) ==
  LET p == PatientAt(e.patient_index)
      lines == exclusion_log_file[1].lines
  IN /\ p.score = Zero
     /\ \A f \in evals :
          (f.patient_index = e.patient_index /\ f.list = e.list) => f.k <= e.k
     /\ Cardinality(LinesOf(e.patient_index)) = 1
     /\ \A j \in LinesOf(e.patient_index) :
          lines[j] = Reason(p, rules.exclusion_criterium[e.k].rule)

ExclusionPolarity ==
  (Ranked /\ HasKeys) =>
    \A e \in evals :
      e.list = "exclusion_criterium" =>
        LET rule == rules.exclusion_criterium[e.k].rule
        IN /\ TookEffect(e) <=> IF e.type \in {"age", "gender"}
                                THEN e.result = Zero
                                ELSE e.result.n > 0
           /\ (e.type = "gender" /\ rule.gender = 2) => ~TookEffect(e)
           /\ (e.type = "gender" /\ rule.gender \notin {0, 1, 2}) => TookEffect(e)

\* in one run a preexisting_conditions or medications entry excludes one
\* patient on a result above 0.0 and lets another pass on 0.0, and an age or
\* gender entry then excludes that one on a result of 0.0
ExclusionPolarityWitness ==
  /\ pc = "done" /\ HasKeys
  /\ \E e1, e3, e4 \in evals :
       /\ e1.list = "exclusion_criterium" /\ e3.list = "exclusion_criterium"
       /\ e4.list = "exclusion_criterium"
       /\ e1.type \in {"age", "gender"} /\ e1.result = Zero /\ TookEffect(e1)
       /\ e3.type \in {"medications", "preexisting_conditions"}
       /\ e3.result.n > 0 /\ TookEffect(e3)
       /\ e4.type = e3.type /\ e4.k = e3.k /\ e4.result = Zero /\ ~TookEffect(e4)
       /\ e4.patient_index = e1.patient_index

(***************************************************************************)
(* The application over any number of runs: when run_application has       *)
(* returned, after the success popup or after the error popup, the window  *)
(* takes the next Browse or Run.                                           *)
(***************************************************************************)
ReturnToIdle ==
  /\ pc \in {"done", "error"}
  /\ pc' = "idle"
  /\ UNCHANGED <<patient_csv_fp, log_folder, rules, patients, cur, patient_scores,
                 exclusion_log_file, scores_csv, parsed_rules_json, output_text, popup,
                 percentage_included, score_writes, evals, sort_calls>>

\* the files picked between the runs
RunsFiles == { <<RowA>>, <<RowA, RowB>>, <<RowB, RowA>> }

\* the translator's answers over the runs
RunsResponses ==
  { [response |-> "rules",
     inclusion_criterium |-> << [rule |-> [type |-> "gender", gender |-> 1],
                                 weight |-> Rat(1, 2)] >>,
     exclusion_criterium |-> << [rule |-> [type |-> "gender", gender |-> 0]] >>],
    [response |-> "rules",
     inclusion_criterium |-> << [rule |-> [type |-> "age", min |-> 50],
                                 weight |-> Rat(1, 2)] >>,
     exclusion_criterium |-> << [rule |-> [type |-> "age", min |-> 50]] >>],
    [response |-> "rules",
     inclusion_criterium |-> << [rule |-> [type |-> "gender", gender |-> 1], weight |-> One] >>],
    [response |-> "error", message |-> "Invalid clinical trial definition."] }

SelectCsvFileRuns == SelectCsvFileFrom(RunsFiles)

RunStartRuns == RunStartWith(RunsResponses)

NextRuns ==
  \/ SelectCsvFileRuns
  \/ RunRejected
  \/ RunStartRuns
  \/ ApplyInclusion
  \/ ApplyExclusion
  \/ FinishSortPatients
  \/ Display
  \/ ReturnToIdle

SpecRuns == Init /\ [][NextRuns]_vars

(***************************************************************************)
(* C12: over any sequence of runs, the Engine in use has had sort_patients *)
(* called on it at most once.  While its patient loop runs, patient_scores *)
(* holds exactly one entry for each patient of this run that the loop has  *)
(* finished, in loop order, and nothing of an earlier run; the exclusion   *)
(* log it writes to is open and holds only lines of this run; and no run   *)
(* ends with the error of a write to a closed file.                        *)
(***************************************************************************)
EngineRankedOnce ==
  /\ sort_calls <= 1
  /\ popup.message # ClosedFileMessage
  /\ pc \in {"inclusion", "exclusion"} =>
       /\ Len(patient_scores) = cur - 1
       /\ \A i \in 1..Len(patient_scores) : patient_scores[i] = ScoreEntry(patients[i])
       /\ exclusion_log_file # <<>> =>
            /\ ~exclusion_log_file[1].closed
            /\ \A j \in 1..Len(exclusion_log_file[1].lines) :
                 \E i \in 1..(cur - 1) :
                   /\ patients[i].score = Zero
                   /\ exclusion_log_file[1].lines[j] =
                        Reason(patients[i], rules.exclusion_criterium[1].rule)
  /\ Scored => /\ Len(patient_scores) = Len(patients)
               /\ \A i \in 1..Len(patients) :
                    Cardinality({j \in 1..Len(patient_scores) :
                                   patient_scores[j] = ScoreEntry(patients[i])}) = 1

\* a later run in its patient loop: an earlier run has left a score log of
\* two patients and a closed exclusion log behind, and this run has excluded
\* its first patient and written the line to its own log
EngineRankedOnceWitness ==
  /\ pc = "inclusion" /\ cur = 2
  /\ scores_csv # <<>> /\ Len(scores_csv[1]) = 2
  /\ output_text # <<>>
  /\ Len(patient_scores) = 1
  /\ patient_scores[1].score = Zero
  /\ exclusion_log_file # <<>>
  /\ ~exclusion_log_file[1].closed
  /\ Len(exclusion_log_file[1].lines) = 1

====
